---------------------------- MODULE Spec2Model ----------------------------
(***************************************************************************)
(* Feedback bot: the aiogram conversation handlers of main.py over the     *)
(* sheet writer of google_sheets.py (GoogleSheetsManager), and the         *)
(* caching statistics service of google_sheets_service.py                  *)
(* (GoogleSheetsService).                                                  *)
(*                                                                         *)
(* Strings of the source written in Cyrillic are transliterated: the type  *)
(* names "Predlozhenie", "Oshibka", "Ideya", "Blagodarnost" and the status *)
(* markers "novyj" / "Novyj".  Python's None is the value NoneVal.         *)
(***************************************************************************)
EXTENDS Integers, Sequences, FiniteSets, TLC

VARIABLES
    state,          \* main.py: FSM state of each user (MemoryStorage)
    data,           \* main.py: FSM data dict of each user (MemoryStorage)
    ADMIN_ID,       \* config.py: Config.ADMIN_ID
    client,         \* google_sheets.py: GoogleSheetsManager.client is set
    sheet,          \* the worksheet Config.SHEET_NAME: all its rows, header first
    reply,          \* what the last handler sent back, or the error it raised
    log,            \* the events of a user's current run of the form (SpecLinear)
    connected,      \* google_sheets_service.py: self.sheet is set
    spreadsheet,    \* google_sheets_service.py: self.spreadsheet is set
    sheet1,         \* the service's worksheet (spreadsheet.sheet1): all its rows
    Z100,           \* the cell Z100 of that worksheet, "" while it is empty
    dashboard,      \* the spreadsheet has the dashboard worksheet
    _stats_cache,   \* google_sheets_service.py: self._stats_cache
    _cache_time,    \* google_sheets_service.py: self._cache_time
    now,            \* the wall clock, in seconds
    writes,         \* rows appended to sheet1 so far (bounds the run)
    last,           \* the service's most recent call and what it returned
    computed,       \* the time in _cache_time was taken by the call that
                    \* stored the snapshot in _stats_cache
    tasks           \* the calls in progress: each has run up to a point where
                    \* another call can run, and has steps left

botVars == <<state, data, ADMIN_ID, client, sheet, reply, log>>
svcVars ==
    <<connected, spreadsheet, sheet1, Z100, dashboard, _stats_cache, _cache_time,
      now, writes, last, computed>>
vars == <<botVars, svcVars, tasks>>

---------------------------------------------------------------------------
(* Bounds *)

\* rows the bot may append to the worksheet in one behaviour of Spec
MaxRows == 1
\* complete runs of the form in one behaviour of SpecLinear
MaxRuns == 2
\* the integer literals int() is asked to read lie in -MaxLiteral..MaxLiteral
MaxLiteral == 9

\* rows appended to the service's worksheet in one behaviour of SpecService
MaxWrites == 2
\* the clock of SpecService advances by TickStep seconds, at most MaxTicks
\* times within a day, and by whole days, at most MaxDays times
TickStep == 30
MaxTicks == 2
MaxDays == 1

\* handler or service calls in progress at the same time
MaxTasks == 2

\* the worksheets of SpecRatings hold at most MaxCells records, or one record
\* more than get_all_feedbacks reads
MaxCells == 3

---------------------------------------------------------------------------
(* Values *)

\* None where a string is expected
NoneVal == "<None>"
\* an attribute that is None, and one that holds the value v
Nothing == <<>>
Some(v) == <<v>>
EmptyDict == [k \in {} |-> 0]

\* FeedbackState, and None for a user outside the form
NoState == "None"
waiting_rating == "waiting_rating"
waiting_type == "waiting_type"
waiting_comment == "waiting_comment"
confirmation == "confirmation"
FeedbackState == {waiting_rating, waiting_type, waiting_comment, confirmation}

Users == {1, 2}
\* callback.from_user of each user; user 2 has no username and no last name
from_user(u) ==
    IF u = 1
    THEN [id |-> 1, username |-> "alice", first_name |-> "Alice", last_name |-> "A"]
    ELSE [id |-> u, username |-> NoneVal, first_name |-> "Bob", last_name |-> NoneVal]

\* x or "" : None and the empty string are falsy
OrEmpty(x) == IF x = NoneVal \/ x = "" THEN "" ELSE x

\* dict.get(key, default)
Get(d, key, default) == IF key \in DOMAIN d THEN d[key] ELSE default

\* state.update_data(key=value)
update_data(d, key, value) == (key :> value) @@ d

Digits == <<"0", "1", "2", "3", "4", "5", "6", "7", "8", "9">>
DigitStrings == {Digits[i] : i \in 1..10}

\* str(n) of a natural number: its decimal digits
RECURSIVE NatStr(_)
NatStr(n) == IF n < 10 THEN Digits[n + 1] ELSE NatStr(n \div 10) \o Digits[(n % 10) + 1]

\* str(n) of an integer
StrOfInt(n) == IF n >= 0 THEN NatStr(n) ELSE "-" \o NatStr(0 - n)

\* str(d.get(key, "")) for a key that holds an integer when it is present
StrGet(d, key) == IF key \in DOMAIN d THEN StrOfInt(d[key]) ELSE ""

\* int(s): s is an integer literal (else int raises ValueError), and the
\* integer it denotes.  The literals are looked up among those of
\* -MaxLiteral..MaxLiteral, which covers every payload and cell of the model.
IntRange == (0 - MaxLiteral)..MaxLiteral
IntLiterals == {StrOfInt(n) : n \in IntRange}
IntOfLiteral == [s \in IntLiterals |-> CHOOSE n \in IntRange : StrOfInt(n) = s]
IsIntLiteral(s) == s \in IntLiterals
ParseInt(s) == IntOfLiteral[s]

\* str.isdigit(): non-empty and decimal digits only
IsDigit(s) == s \in DigitStrings

\* process_type: type_names
type_names ==
    [suggestion |-> "Predlozhenie", bug |-> "Oshibka",
     idea |-> "Ideya", thanks |-> "Blagodarnost"]

---------------------------------------------------------------------------
(* google_sheets.py: GoogleSheetsManager *)

\* the header row the deployment gives the worksheet (row 1 of the store)
ManagerHeader ==
    <<"Timestamp", "User ID", "Username", "First Name", "Last Name",
      "Rating", "Type", "Comment", "Status">>

\* datetime.now().strftime("%Y-%m-%d %H:%M:%S"): the day (counted from the
\* day the clock starts in) and the second of that day
SecondsPerDay == 86400
FormatTs(t) == "day " \o NatStr(t \div SecondsPerDay) \o " sec " \o NatStr(t % SecondsPerDay)

\* save_feedback: the row it builds
ManagerRow(user_data, feedback_data) ==
    <<FormatTs(now),
      StrGet(user_data, "id"),
      Get(user_data, "username", ""),
      Get(user_data, "first_name", ""),
      Get(user_data, "last_name", ""),
      StrGet(feedback_data, "rating"),
      Get(feedback_data, "type", ""),
      Get(feedback_data, "comment", ""),
      "novyj">>

\* self.client after the lazy connect at the top of save_feedback / get_stats:
\* connect() is attempted only when there is no client, and may fail
ClientAfter(connect_ok) == client \/ connect_ok

\* the call of save_feedback's try block that raises, or none
Raises == {"open_by_key", "worksheet", "append_row", "none"}

\* save_feedback: its try block from the k-th of its calls on the store on,
\* made being the calls made before it.  A call that raises ends the block
\* in the except branch, which returns False and makes no call; after the
\* last call the block returns True.
RECURSIVE try_block(_, _, _)
try_block(k, raises, made) ==
    LET calls == <<"open_by_key", "worksheet", "append_row">>
    IN  IF k > Len(calls) THEN [ret |-> TRUE, calls |-> made]
        ELSE IF calls[k] = raises
             THEN [ret |-> FALSE, calls |-> Append(made, calls[k])]
        ELSE try_block(k + 1, raises, Append(made, calls[k]))

\* save_feedback: the value it returns (ret) and the calls it has made on the
\* store (calls); without a client it returns False before the try block
save_feedback(connect_ok, raises) ==
    IF ~ClientAfter(connect_ok) THEN [ret |-> FALSE, calls |-> <<>>]
    ELSE try_block(1, raises, <<>>)

\* save_feedback's return value
SaveResult(connect_ok, raises) == save_feedback(connect_ok, raises).ret

\* how many times save_feedback has called sheet.append_row when it returns
append_row_calls(connect_ok, raises) ==
    LET calls == save_feedback(connect_ok, raises).calls
    IN  Cardinality({k \in 1..Len(calls) : calls[k] = "append_row"})

\* the worksheet after save_feedback
SheetAfterSave(user_data, feedback_data, connect_ok, raises) ==
    IF SaveResult(connect_ok, raises)
    THEN Append(sheet, ManagerRow(user_data, feedback_data))
    ELSE sheet

\* mutant: the quotient cut off after the second decimal
RoundHundredths_Down(num, den) == (100 * num) \div den

\* round(num / den, 2) in hundredths: Python rounds the tie to even.  A tie
\* needs den to be a multiple of 8; the quotient is then exact in the float
\* unless den is a multiple of 40, which no list of the model has.
RoundHundredths(num, den) ==
    LET q == (100 * num) \div den
        r == (100 * num) % den
    IN  IF 2 * r < den THEN q
        ELSE IF 2 * r > den THEN q + 1
        ELSE IF q % 2 = 0 THEN q ELSE q + 1

\* sum(s), adding up the two halves of the list
RECURSIVE SumSeq(_)
SumSeq(s) ==
    IF s = <<>> THEN 0
    ELSE IF Len(s) = 1 THEN s[1]
    ELSE LET h == Len(s) \div 2
         IN  SumSeq(SubSeq(s, 1, h)) + SumSeq(SubSeq(s, h + 1, Len(s)))

\* get_stats: the ratings list of the loop over the data rows
ManagerRatings(rows) ==
    LET Rated(row) == Len(row) > 5 /\ IsDigit(row[6])
        rated == SelectSeq(rows, Rated)
    IN  [j \in 1..Len(rated) |-> ParseInt(rated[j][6])]

ZeroStats == [total |-> 0, average |-> 0]

\* get_stats: its return value; average is in hundredths
get_stats(connect_ok, read_ok) ==
    IF ~ClientAfter(connect_ok) THEN ZeroStats
    ELSE IF ~read_ok THEN ZeroStats
    ELSE IF Len(sheet) <= 1 THEN ZeroStats
    ELSE LET rows == Tail(sheet)
             ratings == ManagerRatings(rows)
             average == IF ratings # <<>>
                        THEN RoundHundredths(SumSeq(ratings), Len(ratings))
                        ELSE 0
         IN  [total |-> Len(rows),
              average |-> average,
              last_feedback |-> rows[Len(rows)][1]]

---------------------------------------------------------------------------
(* keyboards.py: the callback data behind the buttons *)

\* get_rating_keyboard: what follows "rate_" in the data of the button of r
rating_button(r) == StrOfInt(r)
RatingButtons == 1..5

\* get_feedback_type_keyboard: what follows "type_" in the data of the button
\* labelled with each feedback type
type_button ==
    [Predlozhenie |-> "suggestion", Oshibka |-> "bug",
     Ideya |-> "idea", Blagodarnost |-> "thanks"]
Categories == DOMAIN type_button

---------------------------------------------------------------------------
(* main.py: the handlers.  aiogram runs the handler that matches the        *)
(* update, and an exception the handler raises ends it there.  A handler is  *)
(* one action, except submit_feedback, which changes the FSM after a wait    *)
(* for the network and is two.                                               *)
(* reply records the handler that ran, the FSM state the update found the    *)
(* user in, and the message sent (or the exception that escaped).            *)

Sent(u, event, kind) == [to |-> u, event |-> event, at |-> state[u], kind |-> kind]
Raised(u, event, exc) ==
    [to |-> u, event |-> event, at |-> state[u], kind |-> "ERROR", exc |-> exc]

\* mutant: clear() drops the state of every user
ClearedState_Everyone(u) == [v \in Users |-> NoState]

\* state.clear(): no state and an empty data dict
ClearedState(u) == [state EXCEPT ![u] = NoState]
\* mutant: clear() drops the state and keeps the data
ClearedData_Kept(u) == data

ClearedData(u) == [data EXCEPT ![u] = EmptyDict]

\* @dp.message(CommandStart())
cmd_start(u) ==
    /\ reply' = Sent(u, "cmd_start", "welcome")
    /\ UNCHANGED <<state, data, ADMIN_ID, client, sheet>>

\* cmd_stats / show_stats: the text they format from get_stats(); the zeroed
\* result has no 'last_feedback' key
StatsReply(u, event, stats) ==
    IF "last_feedback" \in DOMAIN stats
    THEN [to |-> u, event |-> event, at |-> state[u], kind |-> "stats",
          total |-> stats.total, average |-> stats.average,
          last_feedback |-> stats.last_feedback]
    ELSE Raised(u, event, "KeyError")

\* @dp.message(Command("stats"))
cmd_stats(u, connect_ok, read_ok) ==
    /\ client' = ClientAfter(connect_ok)
    /\ reply' = StatsReply(u, "cmd_stats", get_stats(connect_ok, read_ok))
    /\ UNCHANGED <<state, data, ADMIN_ID, sheet>>

\* @dp.callback_query(F.data == "show_stats")
show_stats(u, connect_ok, read_ok) ==
    /\ client' = ClientAfter(connect_ok)
    /\ reply' = StatsReply(u, "show_stats", get_stats(connect_ok, read_ok))
    /\ UNCHANGED <<state, data, ADMIN_ID, sheet>>

\* @dp.callback_query(F.data == "about")
about_project(u) ==
    /\ reply' = Sent(u, "about", "about")
    /\ UNCHANGED <<state, data, ADMIN_ID, client, sheet>>

\* @dp.callback_query(F.data == "start_feedback")
start_feedback(u) ==
    /\ state' = [state EXCEPT ![u] = waiting_rating]
    /\ reply' = Sent(u, "start_feedback", "rating_prompt")
    /\ UNCHANGED <<data, ADMIN_ID, client, sheet>>

\* @dp.callback_query(F.data.startswith("rate_")); payload is
\* callback.data.split("_")[1]
process_rating(u, payload) ==
    IF ~IsIntLiteral(payload)
    THEN /\ reply' = Sent(u, "process_rating", "rating_error")
         /\ UNCHANGED <<state, data, ADMIN_ID, client, sheet>>
    ELSE /\ data' = [data EXCEPT ![u] = update_data(@, "rating", ParseInt(payload))]
         /\ state' = [state EXCEPT ![u] = waiting_type]
         /\ reply' = Sent(u, "process_rating", "type_prompt")
         /\ UNCHANGED <<ADMIN_ID, client, sheet>>

\* @dp.callback_query(F.data.startswith("type_")); payload is
\* callback.data.split("_")[1]
process_type(u, payload) ==
    IF payload \notin DOMAIN type_names
    THEN /\ reply' = Raised(u, "process_type", "KeyError")
         /\ UNCHANGED <<state, data, ADMIN_ID, client, sheet>>
    ELSE /\ data' = [data EXCEPT ![u] = update_data(@, "type", type_names[payload])]
         /\ state' = [state EXCEPT ![u] = waiting_comment]
         /\ reply' = Sent(u, "process_type", "comment_prompt")
         /\ UNCHANGED <<ADMIN_ID, client, sheet>>

\* mutant: the skip command is stored as it was typed
CommentOf_KeepsSkip(text) == text

\* process_comment: the comment it stores for message.text
CommentOf(text) == IF text = "/skip" THEN "" ELSE text

\* @dp.message(FeedbackState.waiting_comment); text is message.text, None for
\* a message without text
process_comment(u, text) ==
    /\ state[u] = waiting_comment
    /\ data' = [data EXCEPT ![u] = update_data(@, "comment", CommentOf(text))]
    /\ IF {"rating", "type"} \subseteq DOMAIN data'[u]
       THEN /\ state' = [state EXCEPT ![u] = confirmation]
            /\ reply' = Sent(u, "process_comment", "preview")
       ELSE /\ reply' = Raised(u, "process_comment", "KeyError")
            /\ UNCHANGED state
    /\ UNCHANGED <<ADMIN_ID, client, sheet>>

\* submit_feedback: user_info
user_info(u) ==
    [id |-> from_user(u).id,
     username |-> OrEmpty(from_user(u).username),
     first_name |-> OrEmpty(from_user(u).first_name),
     last_name |-> OrEmpty(from_user(u).last_name)]

\* submit_feedback: the error the f-string of admin_text raises, if any:
\* data['rating'], data['type'], then data.get('comment', ...)[:100]
AdminTextError(d) ==
    IF "rating" \notin DOMAIN d \/ "type" \notin DOMAIN d THEN "KeyError"
    ELSE IF Get(d, "comment", "Net kommentariya") = NoneVal THEN "TypeError"
    ELSE "none"

\* @dp.callback_query(F.data == "submit").  start_polling hands every update
\* to a task of its own, and a handler that waits for the network leaves the
\* event loop to the handlers of other updates.  submit_feedback saves, then
\* waits at bot.send_message / message.edit_text, and clears the FSM only
\* after that: it is modelled in two steps, and tasks holds the calls that
\* wait.  (Every other handler changes the FSM before its first network
\* call and is one step.)
\*
\* submit_feedback up to its first network call: get_data, save_feedback and
\* the admin text (an exception there ends the handler)
submit_begin(u, connect_ok, raises) ==
    LET success == SaveResult(connect_ok, raises)
    IN  /\ client' = ClientAfter(connect_ok)
        /\ sheet' = SheetAfterSave(user_info(u), data[u], connect_ok, raises)
        /\ IF success /\ ADMIN_ID # 0 /\ AdminTextError(data[u]) # "none"
           THEN /\ reply' = Raised(u, "submit_feedback", AdminTextError(data[u]))
                /\ UNCHANGED tasks
           ELSE /\ tasks' = Append(tasks, [handler |-> "submit_feedback", u |-> u,
                                           at |-> state[u], success |-> success])
                /\ UNCHANGED reply
        /\ UNCHANGED <<state, data, ADMIN_ID>>

\* the sequence s without its i-th element
Without(s, i) == SubSeq(s, 1, i - 1) \o SubSeq(s, i + 1, Len(s))

\* submit_feedback once edit_text has returned: the message is with the
\* user, then state.clear()
submit_end(i) ==
    LET task == tasks[i]
    IN  /\ reply' = [to |-> task.u, event |-> "submit_feedback", at |-> task.at,
                     kind |-> IF task.success THEN "thanks" ELSE "try_later"]
        /\ state' = ClearedState(task.u)
        /\ data' = ClearedData(task.u)
        /\ tasks' = Without(tasks, i)
        /\ UNCHANGED <<ADMIN_ID, client, sheet>>

\* @dp.callback_query(F.data == "edit")
edit_feedback(u) ==
    /\ state' = [state EXCEPT ![u] = waiting_rating]
    /\ reply' = Sent(u, "edit_feedback", "restart")
    /\ UNCHANGED <<data, ADMIN_ID, client, sheet>>

\* @dp.callback_query(F.data == "cancel")
cancel_feedback(u) ==
    /\ state' = ClearedState(u)
    /\ data' = ClearedData(u)
    /\ reply' = Sent(u, "cancel_feedback", "cancelled")
    /\ UNCHANGED <<ADMIN_ID, client, sheet>>

---------------------------------------------------------------------------
(* Spec: the bot under every order of events of one user *)

\* the users who send events
ActiveUsers == {1}
\* what follows "rate_" in the callback data: a button, an integer no
\* button carries, and a payload that is no integer
RatePayloads == {rating_button(5), "6", "x"}
\* what follows "type_": two of the buttons and a payload no button carries
TypePayloads == {"bug", "thanks", "other"}
\* message.text: a text, the skip command, and a message without text
Texts == {"hi", "/skip", NoneVal}

\* main() calls sheets_manager.connect() before start_polling: the bot starts
\* with a client when the connection succeeded, without one when it failed
Init ==
    /\ state = [u \in Users |-> NoState]
    /\ data = [u \in Users |-> EmptyDict]
    /\ ADMIN_ID \in {0, 1}
    /\ client \in BOOLEAN
    /\ sheet = <<ManagerHeader>>
    /\ reply = [to |-> 0, event |-> "none", at |-> NoState, kind |-> "none"]
    /\ log = [u \in Users |-> <<>>]
    /\ connected = FALSE
    /\ spreadsheet = FALSE
    /\ sheet1 = <<>>
    /\ Z100 = ""
    /\ dashboard = FALSE
    /\ _stats_cache = Nothing
    /\ _cache_time = Nothing
    /\ now = 0
    /\ writes = 0
    /\ last = [op |-> "none"]
    /\ computed = FALSE
    /\ tasks = <<>>

\* the bound of the run: submit is delivered while the worksheet has room
HasRoom == Len(sheet) - 1 < MaxRows

OnCmdStart ==
    \E u \in ActiveUsers : cmd_start(u) /\ UNCHANGED <<log, svcVars, tasks>>
OnCmdStats ==
    \E u \in ActiveUsers, c, r \in BOOLEAN :
        cmd_stats(u, c, r) /\ UNCHANGED <<log, svcVars, tasks>>
OnShowStats ==
    \E u \in ActiveUsers, c, r \in BOOLEAN :
        show_stats(u, c, r) /\ UNCHANGED <<log, svcVars, tasks>>
OnAbout ==
    \E u \in ActiveUsers : about_project(u) /\ UNCHANGED <<log, svcVars, tasks>>
OnStartFeedback ==
    \E u \in ActiveUsers : start_feedback(u) /\ UNCHANGED <<log, svcVars, tasks>>
OnRate ==
    \E u \in ActiveUsers, p \in RatePayloads :
        process_rating(u, p) /\ UNCHANGED <<log, svcVars, tasks>>
OnType ==
    \E u \in ActiveUsers, p \in TypePayloads :
        process_type(u, p) /\ UNCHANGED <<log, svcVars, tasks>>
OnMessage ==
    \E u \in ActiveUsers, t \in Texts :
        process_comment(u, t) /\ UNCHANGED <<log, svcVars, tasks>>
OnSubmit ==
    \E u \in ActiveUsers, c \in BOOLEAN, a \in Raises :
        /\ HasRoom
        /\ Len(tasks) < MaxTasks
        /\ submit_begin(u, c, a)
        /\ UNCHANGED <<log, svcVars>>
OnSubmitEnd ==
    \E i \in 1..Len(tasks) :
        /\ tasks[i].handler = "submit_feedback"
        /\ submit_end(i)
        /\ UNCHANGED <<log, svcVars>>
OnEdit ==
    \E u \in ActiveUsers : edit_feedback(u) /\ UNCHANGED <<log, svcVars, tasks>>
OnCancel ==
    \E u \in ActiveUsers : cancel_feedback(u) /\ UNCHANGED <<log, svcVars, tasks>>

Next ==
    \/ OnCmdStart
    \/ OnCmdStats
    \/ OnShowStats
    \/ OnAbout
    \/ OnStartFeedback
    \/ OnRate
    \/ OnType
    \/ OnMessage
    \/ OnSubmit
    \/ OnSubmitEnd
    \/ OnEdit
    \/ OnCancel

Spec == Init /\ [][Next]_vars

---------------------------------------------------------------------------
(* SpecLinear: runs of the form in which every event arrives in the state  *)
(* that asks for it: start in no state, a rating button in waiting_rating, *)
(* a type button in waiting_type, a text in waiting_comment, submit in     *)
(* confirmation.  log[u] lists the events of the user's current run, and   *)
(* the number of rows the worksheet had when the run began.  A submit that *)
(* waits for the network leaves the user in confirmation, where a second   *)
(* press of the button is a submit in the state that asks for it.          *)

Logged(u, entry) == log' = [log EXCEPT ![u] = Append(@, entry)]

LinStart ==
    \E u \in ActiveUsers :
        /\ state[u] = NoState
        /\ Len(sheet) - 1 < MaxRuns
        /\ start_feedback(u)
        /\ log' = [log EXCEPT ![u] = <<[ev |-> "start", base |-> Len(sheet)]>>]
        /\ UNCHANGED <<svcVars, tasks>>
LinRate ==
    \E u \in ActiveUsers, r \in RatingButtons :
        /\ state[u] = waiting_rating
        /\ process_rating(u, rating_button(r))
        /\ Logged(u, [ev |-> "rate", r |-> r])
        /\ UNCHANGED <<svcVars, tasks>>
LinCategory ==
    \E u \in ActiveUsers, c \in Categories :
        /\ state[u] = waiting_type
        /\ process_type(u, type_button[c])
        /\ Logged(u, [ev |-> "category", c |-> c])
        /\ UNCHANGED <<svcVars, tasks>>
LinComment ==
    \E u \in ActiveUsers, t \in {"hi", "so-so", "/skip"} :
        /\ process_comment(u, t)
        /\ Logged(u, [ev |-> "comment", t |-> t])
        /\ UNCHANGED <<svcVars, tasks>>
LinSubmit ==
    \E u \in ActiveUsers, c \in BOOLEAN, a \in Raises :
        /\ state[u] = confirmation
        /\ Len(tasks) < MaxTasks
        /\ submit_begin(u, c, a)
        /\ Logged(u, [ev |-> "submit", accepted |-> SaveResult(c, a)])
        /\ UNCHANGED svcVars
LinSubmitEnd ==
    \E i \in 1..Len(tasks) :
        /\ tasks[i].handler = "submit_feedback"
        /\ submit_end(i)
        /\ UNCHANGED <<log, svcVars>>

LinearNext ==
    \/ LinStart
    \/ LinRate
    \/ LinCategory
    \/ LinComment
    \/ LinSubmit
    \/ LinSubmitEnd

SpecLinear == Init /\ [][LinearNext]_vars

---------------------------------------------------------------------------
(* SpecUsers: two users send the events of the form in any order, each in   *)
(* any state, their handlers running as the dispatcher's tasks              *)

UsrStart ==
    \E u \in Users : start_feedback(u) /\ UNCHANGED <<log, svcVars, tasks>>
UsrRate ==
    \E u \in Users :
        process_rating(u, rating_button(5)) /\ UNCHANGED <<log, svcVars, tasks>>
UsrType ==
    \E u \in Users :
        process_type(u, type_button["Oshibka"]) /\ UNCHANGED <<log, svcVars, tasks>>
UsrMessage ==
    \E u \in Users :
        process_comment(u, "hi") /\ UNCHANGED <<log, svcVars, tasks>>
UsrSubmitBegin ==
    \E u \in Users, c \in BOOLEAN, a \in Raises :
        /\ HasRoom
        /\ Len(tasks) < MaxTasks
        /\ submit_begin(u, c, a)
        /\ UNCHANGED <<log, svcVars>>
UsrSubmitEnd ==
    \E i \in 1..Len(tasks) :
        /\ tasks[i].handler = "submit_feedback"
        /\ submit_end(i)
        /\ UNCHANGED <<log, svcVars>>
UsrEdit ==
    \E u \in Users : edit_feedback(u) /\ UNCHANGED <<log, svcVars, tasks>>
UsrCancel ==
    \E u \in Users : cancel_feedback(u) /\ UNCHANGED <<log, svcVars, tasks>>

UsersNext ==
    \/ UsrStart
    \/ UsrRate
    \/ UsrType
    \/ UsrMessage
    \/ UsrSubmitBegin
    \/ UsrSubmitEnd
    \/ UsrEdit
    \/ UsrCancel

SpecUsers == Init /\ [][UsersNext]_vars

---------------------------------------------------------------------------
(* SpecLength: runs of the form whose comment is as long as the configured *)
(* maximum, one character longer, or short.                                *)

\* config.py: Config.MAX_FEEDBACK_LENGTH
MAX_FEEDBACK_LENGTH == 10000

\* a text of n characters
RECURSIVE TextOfLength(_)
TextOfLength(n) ==
    IF n = 0 THEN ""
    ELSE IF n % 2 = 1 THEN "a" \o TextOfLength(n - 1)
    ELSE LET half == TextOfLength(n \div 2) IN half \o half

\* message.text: a short text, one of the maximal length, one a character
\* longer
LengthTexts ==
    {"hi", TextOfLength(MAX_FEEDBACK_LENGTH), TextOfLength(MAX_FEEDBACK_LENGTH + 1)}

LenStart ==
    \E u \in ActiveUsers :
        /\ state[u] = NoState
        /\ HasRoom
        /\ start_feedback(u)
        /\ UNCHANGED <<log, svcVars, tasks>>
LenRate ==
    \E u \in ActiveUsers, r \in RatingButtons :
        /\ state[u] = waiting_rating
        /\ process_rating(u, rating_button(r))
        /\ UNCHANGED <<log, svcVars, tasks>>
LenType ==
    \E u \in ActiveUsers, c \in Categories :
        /\ state[u] = waiting_type
        /\ process_type(u, type_button[c])
        /\ UNCHANGED <<log, svcVars, tasks>>
LenMessage ==
    \E u \in ActiveUsers, t \in LengthTexts :
        /\ process_comment(u, t)
        /\ UNCHANGED <<log, svcVars, tasks>>
LenSubmit ==
    \E u \in ActiveUsers, c \in BOOLEAN, a \in Raises :
        /\ state[u] = confirmation
        /\ HasRoom
        /\ Len(tasks) < MaxTasks
        /\ submit_begin(u, c, a)
        /\ UNCHANGED <<log, svcVars>>
LenSubmitEnd ==
    \E i \in 1..Len(tasks) :
        /\ tasks[i].handler = "submit_feedback"
        /\ submit_end(i)
        /\ UNCHANGED <<log, svcVars>>

LengthNext ==
    LenStart \/ LenRate \/ LenType \/ LenMessage \/ LenSubmit \/ LenSubmitEnd

SpecLength == Init /\ [][LengthNext]_vars

---------------------------------------------------------------------------
(* google_sheets_service.py: GoogleSheetsService *)

\* self.CACHE_TIMEOUT, in seconds
CACHE_TIMEOUT == 60
\* get_all_feedbacks: the default of its parameter limit
DefaultLimit == 100

\* _initialize_headers: headers
ServiceHeader ==
    <<"Timestamp", "User ID", "Username", "First Name", "Last Name",
      "Rating", "Type", "Comment", "Status", "Language Code", "Chat ID",
      "Platform", "Bot Version", "Session ID">>

\* the demonstration inputs of the module: test_user and test_feedback
test_user ==
    [id |-> 123456789, username |-> "test_user", first_name |-> "Ivan",
     last_name |-> "Testovyj", language_code |-> "ru", chat_id |-> 123456789]
test_feedback ==
    [rating |-> 5, type |-> "Blagodarnost", comment |-> "Testovyj otzyv",
     session_id |-> "test_session_001"]

\* save_feedback: row_data, for the timestamp taken at clock value t
row_data(t, user_data, feedback_data) ==
    <<FormatTs(t),
      StrGet(user_data, "id"),
      Get(user_data, "username", ""),
      Get(user_data, "first_name", ""),
      Get(user_data, "last_name", ""),
      StrGet(feedback_data, "rating"),
      Get(feedback_data, "type", ""),
      Get(feedback_data, "comment", ""),
      "Novyj",
      Get(user_data, "language_code", "ru"),
      StrGet(user_data, "chat_id"),
      "Telegram",
      "1.0",
      Get(feedback_data, "session_id", "")>>

\* sheet.row_values(1): the cells of the first row, none on a blank worksheet
row_values(rows) == IF rows = <<>> THEN <<>> ELSE rows[1]

\* sheet.insert_row(row, 1): the row goes above the rows of the worksheet
insert_row(rows, row) == <<row>> \o rows

\* sheet.append_row(row): the row goes below the rows of the worksheet
append_row(rows, row) == Append(rows, row)

\* get_all_feedbacks: the column each key of a row's dict is read from; a
\* header that occurs twice keeps the cell of its last column
ColumnOf(headers) ==
    [k \in {headers[j] : j \in 1..Len(headers)} |->
        CHOOSE j \in 1..Len(headers) :
            /\ headers[j] = k
            /\ \A m \in 1..Len(headers) : headers[m] = k => m <= j]

\* get_all_feedbacks: the dict of the row numbered i
RowDict(column, row, i) ==
    [k \in DOMAIN column \cup {"_row"} |->
        IF k = "_row" THEN i ELSE row[column[k]]]

\* get_all_feedbacks: the loop over data; enumerate numbers the rows from
\* 2, and a row shorter than the header row is left out
FeedbacksFrom(headers, column, rows) ==
    LET numbered == [i \in 1..Len(rows) |-> [i |-> i + 1, row |-> rows[i]]]
        LongEnough(p) == Len(p.row) >= Len(headers)
        kept == SelectSeq(numbered, LongEnough)
    IN  [j \in 1..Len(kept) |-> RowDict(column, kept[j].row, kept[j].i)]

Min(a, b) == IF a < b THEN a ELSE b

\* get_all_feedbacks(limit), given the rows get_all_values returns
FeedbacksOf(all_values, limit) ==
    IF Len(all_values) <= 1 THEN <<>>
    ELSE FeedbacksFrom(all_values[1], ColumnOf(all_values[1]),
                       SubSeq(all_values, 2, Min(Len(all_values), limit + 1)))

\* the clock values of the model, and strptime(s, "%Y-%m-%d %H:%M:%S").date():
\* the day of the clock value that FormatTs writes as s (strptime raises
\* ValueError for any other string)
Times ==
    {d * SecondsPerDay + k * TickStep : d \in 0..MaxDays, k \in 0..MaxTicks}
Timestamps == {FormatTs(t) : t \in Times}
DateOfTimestamp ==
    [s \in Timestamps |-> (CHOOSE t \in Times : FormatTs(t) = s) \div SecondsPerDay]
IsTimestamp(s) == s \in Timestamps
DateOf(s) == DateOfTimestamp[s]

\* str.strip() of a cell: blank cells strip to the empty string
Strip(s) == IF s \in {"", " "} THEN "" ELSE s

\* round(num / den * 100, 1) in tenths of a percent, the tie to even; a tie
\* needs den to be a multiple of 16, which no list of the model has
RoundTenthsOfPercent(num, den) ==
    LET q == (1000 * num) \div den
        r == (1000 * num) % den
    IN  IF 2 * r < den THEN q
        ELSE IF 2 * r > den THEN q + 1
        ELSE IF q % 2 = 0 THEN q ELSE q + 1

\* get_statistics: ratings, the list the loop over the feedbacks collects
RatingsOf(feedbacks) ==
    LET Rated(fb) == Get(fb, "Rating", "") # "" /\ IsDigit(Get(fb, "Rating", ""))
        rated == SelectSeq(feedbacks, Rated)
    IN  [j \in 1..Len(rated) |-> ParseInt(rated[j]["Rating"])]

\* a dict of counters: how many times each value occurs in the list
CountBy(values) ==
    [v \in {values[i] : i \in 1..Len(values)} |->
        Cardinality({i \in 1..Len(values) : values[i] = v})]

\* get_statistics: the snapshot for the empty list of feedbacks
EmptyStatistics ==
    [total |-> 0, average_rating |-> 0,
     rating_distribution |-> EmptyDict, type_distribution |-> EmptyDict,
     last_week |-> 0, today |-> 0, with_comments |-> 0,
     status_distribution |-> EmptyDict, last_update |-> "Net dannyh"]

\* get_statistics: the snapshot it computes from the feedbacks on day today.
\* average_rating is in hundredths, comment_percentage and success_rate are
\* in tenths of a percent.
StatisticsOf(feedbacks, today) ==
    IF feedbacks = <<>> THEN EmptyStatistics
    ELSE
    LET n == Len(feedbacks)
        ratings == RatingsOf(feedbacks)
        fb_type == [i \in 1..n |-> Get(feedbacks[i], "Type", "Ne ukazan")]
        status == [i \in 1..n |-> Get(feedbacks[i], "Status", "Ne ukazan")]
        Dated == {i \in 1..n : IsTimestamp(Get(feedbacks[i], "Timestamp", ""))}
        fb_date(i) == DateOf(feedbacks[i]["Timestamp"])
        with_comments ==
            Cardinality({i \in 1..n : Strip(Get(feedbacks[i], "Comment", "")) # ""})
        rating_dist ==
            [k \in {StrOfInt(i) : i \in 1..5}
                     \cup {StrOfInt(ratings[i]) : i \in 1..Len(ratings)} |->
                Cardinality({i \in 1..Len(ratings) : StrOfInt(ratings[i]) = k})]
    IN  [total |-> n,
         average_rating |->
            IF ratings # <<>> THEN RoundHundredths(SumSeq(ratings), Len(ratings)) ELSE 0,
         rating_distribution |-> rating_dist,
         type_distribution |-> CountBy(fb_type),
         status_distribution |-> CountBy(status),
         last_week |-> Cardinality({i \in Dated : today - fb_date(i) <= 7}),
         today |-> Cardinality({i \in Dated : fb_date(i) = today}),
         with_comments |-> with_comments,
         comment_percentage |-> RoundTenthsOfPercent(with_comments, n),
         last_update |-> Get(feedbacks[1], "Timestamp", ""),
         success_rate |->
            IF ratings # <<>> /\ SumSeq(ratings) > 0
            THEN RoundTenthsOfPercent(SumSeq(ratings), 5 * Len(ratings))
            ELSE 0]

\* timedelta.seconds: the seconds within the day, the whole days set aside
SecondsField(delta) == delta % SecondsPerDay

\* mutant: the cached snapshot is never taken for fresh
CacheFresh_Never(clock, cache_time) == FALSE

\* get_statistics: (datetime.now() - self._cache_time).seconds <
\* self.CACHE_TIMEOUT, for the clock value the call has read and the value
\* of self._cache_time it reads after that
CacheFresh(clock, cache_time) ==
    SecondsField(clock - cache_time[1]) < CACHE_TIMEOUT

---------------------------------------------------------------------------
(* The calls of the service.  The class takes no lock and its methods wait *)
(* on the network, so a call made from another thread runs between any two *)
(* statements of a call in progress.  A call is kept in tasks from the     *)
(* moment it is made until it returns, and makes one step for each of its  *)
(* statements that reads or writes what the calls share: the attributes of *)
(* the object, the worksheet, the clock.  The statements between two such  *)
(* statements work on local values and belong to the step before them.     *)

\* __init__: the attributes of a new GoogleSheetsService
NewService ==
    [sheet |-> FALSE, spreadsheet |-> FALSE, _stats_cache |-> Nothing,
     _cache_time |-> Nothing]

\* a call of the method from outside: stack holds the methods entered and
\* not yet left, pc the statement the call makes next, the other fields the
\* local variables of the methods.  The call is made on the service the
\* process shares, unless it is the __main__ block (own), where
\* setup_google_sheets makes a service of its own in sheets_service and
\* returns it.
NewCall(method, pc) ==
    [handler |-> method, stack |-> <<method>>, pc |-> pc,
     own |-> FALSE, sheets_service |-> NewService,
     force_refresh |-> FALSE, feedback_data |-> EmptyDict, limit |-> DefaultLimit,
     timestamp |-> 0, row_number |-> 0, clock |-> 0,
     answered |-> FALSE, feedbacks |-> <<>>, rows |-> {}, stats |-> EmptyDict,
     stored |-> FALSE, can_read |-> FALSE, can_write |-> FALSE,
     original_value |-> NoneVal, test_value |-> ""]

\* the method a call is in, and the call after it has entered a method at
\* the statement pc, gone to the statement pc, or left the method it is in
Method(task) == IF task.stack = <<>> THEN "" ELSE task.stack[Len(task.stack)]
Enter(task, method, pc) == [task EXCEPT !.stack = Append(@, method), !.pc = pc]
At(task, pc) == [task EXCEPT !.pc = pc]
Leave(task) == [task EXCEPT !.stack = SubSeq(@, 1, Len(@) - 1)]

\* self in the methods of a call: the attributes of its object
Self(task) ==
    IF task.own THEN task.sheets_service
    ELSE [sheet |-> connected, spreadsheet |-> spreadsheet,
          _stats_cache |-> _stats_cache, _cache_time |-> _cache_time]

\* a statement of the call assigns attributes of self, which become obj:
\* the call afterwards, and the attributes of the shared service
Assigned(task, obj) ==
    [task EXCEPT !.sheets_service = IF task.own THEN obj ELSE @]
Assign(task, obj) ==
    IF task.own
    THEN UNCHANGED <<connected, spreadsheet, _stats_cache, _cache_time>>
    ELSE /\ connected' = obj.sheet
         /\ spreadsheet' = obj.spreadsheet
         /\ _stats_cache' = obj._stats_cache
         /\ _cache_time' = obj._cache_time

\* the calls in progress when call i goes on as task
Resume(i, task) == [tasks EXCEPT ![i] = task]

\* the calls in progress when self._stats_cache is assigned: the snapshot a
\* call has stored there (stored) is no longer the one in the cache
Overwritten == [k \in 1..Len(tasks) |-> [tasks[k] EXCEPT !.stored = FALSE]]

\* the result dict of save_feedback
SaveFailure == [op |-> "save", at |-> now, success |-> FALSE, row_number |-> 0]
SaveSuccess(row_number) ==
    [op |-> "save", at |-> now, success |-> TRUE, row_number |-> row_number]

\* save_feedback returns result in the call from; the __main__ block goes on
\* to service.export_to_csv(..)
save_returns(i, from, result) ==
    LET task == Leave(from)
    IN  IF Method(task) = "__main__"
        THEN /\ tasks' = Resume(i, Enter(Enter(task, "export_to_csv", ""),
                                         "get_all_feedbacks", "sheet_test"))
             /\ UNCHANGED last
        ELSE /\ tasks' = Without(tasks, i)
             /\ last' = result

\* a statement that reads the clock, datetime.now(), before the statement
\* next uses the value
datetime_now(i, next) ==
    /\ tasks' = Resume(i, [tasks[i] EXCEPT !.clock = now, !.pc = next])
    /\ UNCHANGED <<connected, spreadsheet, sheet1, Z100, dashboard, _stats_cache,
                   _cache_time, writes, computed, last>>

\* connect() returns value in the call from: save_feedback gives up when it
\* is False, get_all_feedbacks goes on whatever it is, test_connection
\* returns its results when it is False (and setup_google_sheets then
\* returns None)
connect_returns(i, from, value) ==
    LET task == Leave(from)
    IN  CASE Method(task) = "save_feedback" /\ value ->
                /\ tasks' = Resume(i, At(task, "timestamp"))
                /\ UNCHANGED last
          [] Method(task) = "save_feedback" /\ ~value ->
                save_returns(i, task, SaveFailure)
          [] Method(task) = "get_all_feedbacks" ->
                /\ tasks' = Resume(i, At(task, "get_all_values"))
                /\ UNCHANGED last
          [] Method(task) = "test_connection" /\ value ->
                /\ tasks' = Resume(i, At(task, "acell_A1"))
                /\ UNCHANGED last
          [] OTHER ->
                /\ tasks' = Without(tasks, i)
                /\ UNCHANGED last

\* connect: from its first line to self.spreadsheet = client.open_by_key(..);
\* ok is whether the credentials load and the spreadsheet opens
connect_open_by_key(i, ok) ==
    LET obj == [Self(tasks[i]) EXCEPT !.spreadsheet = @ \/ ok]
        task == Assigned(tasks[i], obj)
    IN  /\ Assign(task, obj)
        /\ IF ok
           THEN tasks' = Resume(i, At(task, "sheet1")) /\ UNCHANGED last
           ELSE connect_returns(i, task, FALSE)
        /\ UNCHANGED <<sheet1, Z100, dashboard, writes, computed>>

\* connect: self.sheet = self.spreadsheet.sheet1, which asks the store for
\* the worksheets; when that raises, self.sheet is left as it was and
\* connect returns False
connect_sheet1(i, ok) ==
    LET obj == [Self(tasks[i]) EXCEPT !.sheet = @ \/ ok]
        task == Assigned(tasks[i], obj)
    IN  /\ Assign(task, obj)
        /\ IF ok
           THEN tasks' = Resume(i, At(task, "title")) /\ UNCHANGED last
           ELSE connect_returns(i, task, FALSE)
        /\ UNCHANGED <<sheet1, Z100, dashboard, writes, computed>>

\* connect: title = self.spreadsheet.title, up to the call of
\* _initialize_headers; when it raises, connect returns False and self.sheet
\* stays set
connect_title(i, ok) ==
    /\ IF ok
       THEN tasks' = Resume(i, At(tasks[i], "row_values")) /\ UNCHANGED last
       ELSE connect_returns(i, tasks[i], FALSE)
    /\ UNCHANGED <<connected, spreadsheet, sheet1, Z100, dashboard, _stats_cache,
                   _cache_time, writes, computed>>

\* _initialize_headers: first_row = self.sheet.row_values(1) and the test of
\* it; an exception is logged and connect returns True
headers_row_values(i, ok) ==
    /\ IF ok /\ row_values(sheet1) = <<>>
       THEN tasks' = Resume(i, At(tasks[i], "insert_row")) /\ UNCHANGED last
       ELSE connect_returns(i, tasks[i], TRUE)
    /\ UNCHANGED <<connected, spreadsheet, sheet1, Z100, dashboard, _stats_cache,
                   _cache_time, writes, computed>>

\* _initialize_headers: self.sheet.insert_row(headers, 1), then the format
\* calls, which change no cell; connect returns True
headers_insert_row(i, ok) ==
    /\ sheet1' = IF ok THEN insert_row(sheet1, ServiceHeader) ELSE sheet1
    /\ connect_returns(i, tasks[i], TRUE)
    /\ UNCHANGED <<connected, spreadsheet, Z100, dashboard, _stats_cache, _cache_time,
                   writes, computed>>

\* save_feedback: the test of self.client and self.sheet
save_test(i) ==
    /\ tasks' = Resume(i, IF Self(tasks[i]).sheet THEN At(tasks[i], "timestamp")
                          ELSE Enter(tasks[i], "connect", "open_by_key"))
    /\ UNCHANGED <<connected, spreadsheet, sheet1, Z100, dashboard, _stats_cache,
                   _cache_time, writes, computed, last>>

\* save_feedback: timestamp = datetime.now().strftime(..), and row_data
save_timestamp(i) ==
    /\ tasks' = Resume(i, [tasks[i] EXCEPT !.timestamp = now, !.pc = "append_row"])
    /\ UNCHANGED <<connected, spreadsheet, sheet1, Z100, dashboard, _stats_cache,
                   _cache_time, writes, computed, last>>

\* save_feedback: self.sheet.append_row(row_data); an exception ends the
\* call in the except branch
save_append_row(i, ok) ==
    /\ IF ok
       THEN /\ sheet1' = append_row(sheet1, row_data(tasks[i].timestamp, test_user,
                                                     tasks[i].feedback_data))
            /\ writes' = writes + 1
            /\ tasks' = Resume(i, At(tasks[i], "read_back"))
            /\ UNCHANGED last
       ELSE /\ save_returns(i, tasks[i], SaveFailure)
            /\ UNCHANGED <<sheet1, writes>>
    /\ UNCHANGED <<connected, spreadsheet, Z100, dashboard, _stats_cache, _cache_time,
                   computed>>

\* save_feedback: all_values = self.sheet.get_all_values(), row_number, and
\* _format_new_row, which changes no cell and swallows its exceptions
save_read_back(i, ok) ==
    /\ IF ok
       THEN /\ tasks' = Resume(i, [tasks[i] EXCEPT !.row_number = Len(sheet1),
                                                   !.pc = "reset_cache"])
            /\ UNCHANGED last
       ELSE save_returns(i, tasks[i], SaveFailure)
    /\ UNCHANGED <<connected, spreadsheet, sheet1, Z100, dashboard, _stats_cache,
                   _cache_time, writes, computed>>

\* save_feedback: self._stats_cache = None, and the return of the result
save_reset_cache(i) ==
    LET obj == [Self(tasks[i]) EXCEPT !._stats_cache = Nothing]
        task == Assigned(tasks[i], obj)
    IN  /\ Assign(task, obj)
        /\ IF task.own
           THEN /\ save_returns(i, task, SaveSuccess(task.row_number))
                /\ UNCHANGED computed
           ELSE /\ tasks' = Without(Overwritten, i)
                /\ last' = SaveSuccess(task.row_number)
                /\ computed' = FALSE
        /\ UNCHANGED <<sheet1, Z100, dashboard, writes>>

\* get_statistics returns in the call from: result holds whether the call went to
\* get_all_feedbacks (read), whether the store answered (answered), the row
\* numbers of the feedbacks (rows) and the value returned (ret).
\* create_dashboard_sheet fills its worksheet from the value and returns;
\* setup_google_sheets calls get_statistics() after create_dashboard_sheet
\* and returns the service after that call, and the __main__ block calls
\* service.save_feedback(test_user, test_feedback); last keeps what the
\* shared service returns.
statistics_return(i, from, result) ==
    LET task == [Leave(from) EXCEPT !.stored = FALSE]
    IN  /\ last' = IF from.own THEN last
                   ELSE [op |-> "stats", at |-> now, force |-> from.force_refresh,
                         read |-> result.read, answered |-> result.answered,
                         rows |-> result.rows, ret |-> result.ret]
        /\ tasks' = IF /\ Method(task) = "create_dashboard_sheet"
                       /\ Method(Leave(task)) = "setup_google_sheets"
                    THEN Resume(i, [Enter(Leave(task), "get_statistics",
                                          "cache_test")
                                        EXCEPT !.force_refresh = FALSE])
                    ELSE IF /\ Method(task) = "setup_google_sheets"
                            /\ Method(Leave(task)) = "__main__"
                    THEN Resume(i, [Enter(Leave(task), "save_feedback", "save_test")
                                        EXCEPT !.feedback_data = test_feedback])
                    ELSE Without(tasks, i)

\* get_statistics: the test of the cache, not force_refresh and
\* self._stats_cache
statistics_cache_test(i) ==
    /\ tasks' = Resume(i, IF /\ ~tasks[i].force_refresh
                             /\ Self(tasks[i])._stats_cache # Nothing
                          THEN At(tasks[i], "cache_time")
                          ELSE Enter(tasks[i], "get_all_feedbacks", "sheet_test"))
    /\ UNCHANGED <<connected, spreadsheet, sheet1, Z100, dashboard, _stats_cache,
                   _cache_time, writes, computed, last>>

\* get_statistics: the test of the cache, self._cache_time; datetime.now()
\* is read next
statistics_cache_time(i) ==
    /\ tasks' = Resume(i, IF Self(tasks[i])._cache_time # Nothing
                          THEN At(tasks[i], "cache_now")
                          ELSE Enter(tasks[i], "get_all_feedbacks", "sheet_test"))
    /\ UNCHANGED <<connected, spreadsheet, sheet1, Z100, dashboard, _stats_cache,
                   _cache_time, writes, computed, last>>

\* get_statistics: the test of the cache, self._cache_time is read again
\* and taken from the clock value read before
statistics_cache_age(i) ==
    /\ tasks' = Resume(i, IF CacheFresh(tasks[i].clock, Self(tasks[i])._cache_time)
                          THEN At(tasks[i], "return_cache")
                          ELSE Enter(tasks[i], "get_all_feedbacks", "sheet_test"))
    /\ UNCHANGED <<connected, spreadsheet, sheet1, Z100, dashboard, _stats_cache,
                   _cache_time, writes, computed, last>>

\* get_statistics: return self._stats_cache, which is read again
statistics_return_cache(i) ==
    /\ statistics_return(i, tasks[i],
                         [read |-> FALSE, answered |-> FALSE, rows |-> {},
                          ret |-> IF Self(tasks[i])._stats_cache = Nothing
                                  THEN NoneVal
                                  ELSE Self(tasks[i])._stats_cache[1]])
    /\ UNCHANGED <<connected, spreadsheet, sheet1, Z100, dashboard, _stats_cache,
                   _cache_time, writes, computed>>

\* get_all_feedbacks: the test of self.sheet
feedbacks_sheet_test(i) ==
    /\ tasks' = Resume(i, IF Self(tasks[i]).sheet THEN At(tasks[i], "get_all_values")
                          ELSE Enter(tasks[i], "connect", "open_by_key"))
    /\ UNCHANGED <<connected, spreadsheet, sheet1, Z100, dashboard, _stats_cache,
                   _cache_time, writes, computed, last>>

\* get_all_feedbacks: all_values = self.sheet.get_all_values() and the list
\* made of it; without a sheet, or when the store raises, the list is [].
\* In get_statistics the list is tested next, and an empty one gives the
\* zero snapshot.
feedbacks_get_all_values(i, ok) ==
    LET task == Leave(tasks[i])
        answered == Self(tasks[i]).sheet /\ ok
        feedbacks == IF answered THEN FeedbacksOf(sheet1, task.limit) ELSE <<>>
    IN  /\ tasks' =
              IF Method(task) = "get_statistics"
              THEN Resume(i, [task EXCEPT
                      !.answered = answered,
                      !.feedbacks = feedbacks,
                      !.rows = {feedbacks[k]["_row"] : k \in 1..Len(feedbacks)},
                      !.stats = IF feedbacks = <<>> THEN EmptyStatistics ELSE @,
                      !.pc = IF feedbacks = <<>> THEN "store_cache" ELSE "today"])
              ELSE Without(tasks, i)
        /\ UNCHANGED <<connected, spreadsheet, sheet1, Z100, dashboard, _stats_cache,
                       _cache_time, writes, computed, last>>

\* get_statistics: today = datetime.now().date(), and the snapshot computed
\* from the feedbacks
statistics_today(i) ==
    /\ tasks' = Resume(i, [tasks[i] EXCEPT
            !.stats = StatisticsOf(tasks[i].feedbacks, now \div SecondsPerDay),
            !.feedbacks = <<>>,
            !.pc = "store_cache"])
    /\ UNCHANGED <<connected, spreadsheet, sheet1, Z100, dashboard, _stats_cache,
                   _cache_time, writes, computed, last>>

\* get_statistics: self._stats_cache = stats; the time in self._cache_time
\* is still that of an earlier snapshot
statistics_store_cache(i) ==
    LET obj == [Self(tasks[i]) EXCEPT !._stats_cache = Some(tasks[i].stats)]
        task == At(Assigned(tasks[i], obj), "store_now")
    IN  /\ Assign(task, obj)
        /\ IF task.own
           THEN tasks' = Resume(i, task) /\ UNCHANGED computed
           ELSE /\ tasks' = [Overwritten EXCEPT ![i] = [task EXCEPT !.stored = TRUE]]
                /\ computed' = FALSE
        /\ UNCHANGED <<sheet1, Z100, dashboard, writes, last>>

\* get_statistics: self._cache_time is assigned the clock value read before,
\* and return stats
statistics_store_time(i) ==
    LET obj == [Self(tasks[i]) EXCEPT !._cache_time = Some(tasks[i].clock)]
        task == Assigned(tasks[i], obj)
    IN  /\ Assign(task, obj)
        /\ computed' = IF task.own THEN computed ELSE task.stored
        /\ statistics_return(i, task,
                             [read |-> TRUE, answered |-> task.answered,
                              rows |-> task.rows, ret |-> task.stats])
        /\ UNCHANGED <<sheet1, Z100, dashboard, writes>>

\* create_dashboard_sheet returns: setup_google_sheets goes on to its call
\* of get_statistics()
dashboard_return(i) ==
    LET task == Leave(tasks[i])
    IN  tasks' = IF Method(task) = "setup_google_sheets"
                 THEN Resume(i, [Enter(task, "get_statistics", "cache_test")
                                     EXCEPT !.force_refresh = FALSE])
                 ELSE Without(tasks, i)

\* create_dashboard_sheet: self.spreadsheet.worksheet(dashboard_title).
\* Without a spreadsheet the attribute error ends the call; a dashboard that
\* exists is returned; WorksheetNotFound lets the call go on.
dashboard_worksheet(i, ok) ==
    /\ IF Self(tasks[i]).spreadsheet /\ ok /\ ~dashboard
       THEN tasks' = Resume(i, At(tasks[i], "add_worksheet"))
       ELSE dashboard_return(i)
    /\ UNCHANGED <<connected, spreadsheet, sheet1, Z100, dashboard, _stats_cache,
                   _cache_time, writes, computed, last>>

\* create_dashboard_sheet: self.spreadsheet.add_worksheet(..), which raises
\* when a worksheet of that title exists
dashboard_add_worksheet(i, ok) ==
    /\ dashboard' = (dashboard \/ ok)
    /\ IF ok /\ ~dashboard
       THEN tasks' = Resume(i, At(tasks[i], "dashboard_title"))
       ELSE dashboard_return(i)
    /\ UNCHANGED <<connected, spreadsheet, sheet1, Z100, _stats_cache, _cache_time,
                   writes, computed, last>>

\* create_dashboard_sheet: the title cell of the dashboard is written,
\* formatted and merged, and get_statistics(force_refresh=True) is called
dashboard_title(i, ok) ==
    /\ IF ok
       THEN tasks' = Resume(i, [Enter(tasks[i], "get_statistics", "cache_test")
                                    EXCEPT !.force_refresh = TRUE])
       ELSE dashboard_return(i)
    /\ UNCHANGED <<connected, spreadsheet, sheet1, Z100, dashboard, _stats_cache,
                   _cache_time, writes, computed, last>>

\* test_connection returns its results: setup_google_sheets goes on to
\* create_dashboard_sheet when they have connected and has_access
test_return(i, task) ==
    tasks' = IF /\ Method(Leave(task)) = "setup_google_sheets"
                /\ task.can_read
                /\ task.can_write
             THEN Resume(i, Enter(Leave(task), "create_dashboard_sheet",
                                  "worksheet"))
             ELSE Without(tasks, i)

\* test_connection: self.sheet.acell('A1').value
test_acell_A1(i, ok) ==
    /\ tasks' = Resume(i, [tasks[i] EXCEPT !.can_read = ok, !.pc = "acell_Z100"])
    /\ UNCHANGED <<connected, spreadsheet, sheet1, Z100, dashboard, _stats_cache,
                   _cache_time, writes, computed, last>>

\* test_connection: original_value = self.sheet.acell(test_cell).value; the
\* value of an empty cell is None
test_acell_Z100(i, ok) ==
    /\ IF ok
       THEN tasks' = Resume(i, [tasks[i] EXCEPT
                !.original_value = IF Z100 = "" THEN NoneVal ELSE Z100,
                !.pc = "test_value"])
       ELSE test_return(i, tasks[i])
    /\ UNCHANGED <<connected, spreadsheet, sheet1, Z100, dashboard, _stats_cache,
                   _cache_time, writes, computed, last>>

\* test_connection: test_value is made of the clock value read before, and
\* self.sheet.update(test_cell, test_value)
test_update_Z100(i, ok) ==
    LET test_value == "TEST_" \o NatStr(tasks[i].clock)
    IN  /\ Z100' = IF ok THEN test_value ELSE Z100
        /\ IF ok
           THEN tasks' = Resume(i, [tasks[i] EXCEPT !.test_value = test_value,
                                                    !.pc = "acell_written"])
           ELSE test_return(i, tasks[i])
        /\ UNCHANGED <<connected, spreadsheet, sheet1, dashboard, _stats_cache,
                       _cache_time, writes, computed, last>>

\* test_connection: written_value = self.sheet.acell(test_cell).value and
\* the comparison with test_value
test_acell_written(i, ok) ==
    /\ IF ok
       THEN tasks' = Resume(i, [tasks[i] EXCEPT
                !.can_write = (Z100 = tasks[i].test_value),
                !.pc = "restore_Z100"])
       ELSE test_return(i, tasks[i])
    /\ UNCHANGED <<connected, spreadsheet, sheet1, Z100, dashboard, _stats_cache,
                   _cache_time, writes, computed, last>>

\* test_connection: self.sheet.update(test_cell, '') or
\* self.sheet.update(test_cell, original_value), and the return
test_restore_Z100(i, ok) ==
    /\ Z100' = IF ~ok THEN Z100
               ELSE IF tasks[i].original_value = NoneVal THEN ""
               ELSE tasks[i].original_value
    /\ test_return(i, tasks[i])
    /\ UNCHANGED <<connected, spreadsheet, sheet1, dashboard, _stats_cache,
                   _cache_time, writes, computed, last>>

\* the statements whose outcome the network decides
NetworkCalls ==
    {"open_by_key", "sheet1", "title", "row_values", "insert_row", "append_row",
     "read_back", "get_all_values", "worksheet", "add_worksheet", "dashboard_title",
     "acell_A1", "acell_Z100", "update_Z100", "acell_written", "restore_Z100"}

\* the next statement of call i; ok is the outcome of its network call
statement(i, ok) ==
    CASE tasks[i].pc = "open_by_key" -> connect_open_by_key(i, ok)
      [] tasks[i].pc = "sheet1" -> connect_sheet1(i, ok)
      [] tasks[i].pc = "title" -> connect_title(i, ok)
      [] tasks[i].pc = "row_values" -> headers_row_values(i, ok)
      [] tasks[i].pc = "insert_row" -> headers_insert_row(i, ok)
      [] tasks[i].pc = "save_test" -> save_test(i)
      [] tasks[i].pc = "timestamp" -> save_timestamp(i)
      [] tasks[i].pc = "append_row" -> save_append_row(i, ok)
      [] tasks[i].pc = "read_back" -> save_read_back(i, ok)
      [] tasks[i].pc = "reset_cache" -> save_reset_cache(i)
      [] tasks[i].pc = "cache_test" -> statistics_cache_test(i)
      [] tasks[i].pc = "cache_time" -> statistics_cache_time(i)
      [] tasks[i].pc = "cache_now" -> datetime_now(i, "cache_age")
      [] tasks[i].pc = "cache_age" -> statistics_cache_age(i)
      [] tasks[i].pc = "return_cache" -> statistics_return_cache(i)
      [] tasks[i].pc = "sheet_test" -> feedbacks_sheet_test(i)
      [] tasks[i].pc = "get_all_values" -> feedbacks_get_all_values(i, ok)
      [] tasks[i].pc = "today" -> statistics_today(i)
      [] tasks[i].pc = "store_cache" -> statistics_store_cache(i)
      [] tasks[i].pc = "store_now" -> datetime_now(i, "store_time")
      [] tasks[i].pc = "store_time" -> statistics_store_time(i)
      [] tasks[i].pc = "worksheet" -> dashboard_worksheet(i, ok)
      [] tasks[i].pc = "add_worksheet" -> dashboard_add_worksheet(i, ok)
      [] tasks[i].pc = "dashboard_title" -> dashboard_title(i, ok)
      [] tasks[i].pc = "acell_A1" -> test_acell_A1(i, ok)
      [] tasks[i].pc = "acell_Z100" -> test_acell_Z100(i, ok)
      [] tasks[i].pc = "test_value" -> datetime_now(i, "update_Z100")
      [] tasks[i].pc = "update_Z100" -> test_update_Z100(i, ok)
      [] tasks[i].pc = "acell_written" -> test_acell_written(i, ok)
      [] tasks[i].pc = "restore_Z100" -> test_restore_Z100(i, ok)

---------------------------------------------------------------------------
(* SpecService: the service under every order of the statements of its     *)
(* calls, of clock advances and of rows other writers add to the worksheet *)

\* the feedbacks saved: the demonstration one, and one without a comment
Feedbacks ==
    {test_feedback, [rating |-> 2, type |-> "Oshibka", comment |-> ""]}

\* rows written by hand: one whose rating cell is not a number, and one
\* that ends before the last column
ForeignRows ==
    {<<FormatTs(0), "7", "", "Eve", "", "n/a", "Ideya", "by hand", "Novyj",
       "ru", "7", "Telegram", "1.0", "">>,
     <<"yesterday", "7", "", "Eve", "", "4">>}

\* the service as __init__ leaves it, on a blank worksheet
ServiceInit ==
    /\ state = [u \in Users |-> NoState]
    /\ data = [u \in Users |-> EmptyDict]
    /\ ADMIN_ID = 0
    /\ client = FALSE
    /\ sheet = <<ManagerHeader>>
    /\ reply = [to |-> 0, event |-> "none", at |-> NoState, kind |-> "none"]
    /\ log = [u \in Users |-> <<>>]
    /\ connected = FALSE
    /\ spreadsheet = FALSE
    /\ sheet1 = <<>>
    /\ Z100 = ""
    /\ dashboard = FALSE
    /\ _stats_cache = Nothing
    /\ _cache_time = Nothing
    /\ now = 0
    /\ writes = 0
    /\ last = [op |-> "none"]
    /\ computed = FALSE
    /\ tasks = <<>>

\* a call is made from outside and waits to make its first statement; at
\* most MaxTasks calls are in progress
Call(task) ==
    /\ Len(tasks) < MaxTasks
    /\ tasks' = Append(tasks, task)
    /\ UNCHANGED <<svcVars, botVars>>

\* the bound of the run: the rows appended and the calls that have the
\* append_row of a save_feedback ahead stay within MaxWrites
CanWrite ==
    LET unwritten == {i \in 1..Len(tasks) :
                        /\ tasks[i].handler \in {"save_feedback", "__main__"}
                        /\ tasks[i].pc \notin {"read_back", "reset_cache"}
                        /\ \A k \in 1..Len(tasks[i].stack) :
                              tasks[i].stack[k] # "export_to_csv"}
    IN  writes + Cardinality(unwritten) < MaxWrites

\* the public methods are called
SvcSave ==
    \E f \in Feedbacks :
        /\ CanWrite
        /\ Call([NewCall("save_feedback", "save_test") EXCEPT
                    !.feedback_data = f])
SvcStats ==
    \E force \in BOOLEAN :
        Call([NewCall("get_statistics", "cache_test") EXCEPT
                 !.force_refresh = force])
SvcFeedbacks ==
    \E limit \in {1, DefaultLimit} :
        Call([NewCall("get_all_feedbacks", "sheet_test") EXCEPT !.limit = limit])
SvcConnect == Call(NewCall("connect", "open_by_key"))
SvcTestConnection ==
    Call(Enter(NewCall("test_connection", ""), "connect", "open_by_key"))
SvcExport ==
    Call(Enter(NewCall("export_to_csv", ""), "get_all_feedbacks", "sheet_test"))
SvcDashboard == Call(NewCall("create_dashboard_sheet", "worksheet"))

\* the __main__ block of the module: service = setup_google_sheets(), where
\* sheets_service = GoogleSheetsService(..) is made and test_connection()
\* is called on it.  The calls that follow are made on the service setup has
\* returned.
SvcMain ==
    /\ CanWrite
    /\ Call([Enter(Enter(Enter(NewCall("__main__", ""), "setup_google_sheets", ""),
                         "test_connection", ""),
                   "connect", "open_by_key")
                EXCEPT !.own = TRUE])

\* a call in progress makes its next statement
SvcStep ==
    \E i \in 1..Len(tasks), ok \in BOOLEAN :
        /\ ok \/ tasks[i].pc \in NetworkCalls
        /\ statement(i, ok)
        /\ UNCHANGED <<now, botVars>>

Tick ==
    /\ (now % SecondsPerDay) \div TickStep < MaxTicks
    /\ now' = now + TickStep
    /\ UNCHANGED <<connected, spreadsheet, sheet1, Z100, dashboard, _stats_cache,
                   _cache_time, writes, last, computed, botVars, tasks>>
NextDay ==
    /\ now \div SecondsPerDay < MaxDays
    /\ now' = now + SecondsPerDay
    /\ UNCHANGED <<connected, spreadsheet, sheet1, Z100, dashboard, _stats_cache,
                   _cache_time, writes, last, computed, botVars, tasks>>
ForeignWrite ==
    \E row \in ForeignRows :
        /\ CanWrite
        /\ sheet1' = Append(sheet1, row)
        /\ writes' = writes + 1
        /\ UNCHANGED <<connected, spreadsheet, Z100, dashboard, _stats_cache,
                       _cache_time, now, last, computed, botVars, tasks>>

ServiceNext ==
    \/ SvcSave \/ SvcStats \/ SvcFeedbacks \/ SvcConnect \/ SvcTestConnection
    \/ SvcExport \/ SvcDashboard \/ SvcMain \/ SvcStep
    \/ Tick \/ NextDay \/ ForeignWrite

SpecService == ServiceInit /\ [][ServiceNext]_vars

---------------------------------------------------------------------------
(* SpecSequence: the service called by one caller, who makes a call when   *)
(* the call before has returned; the clock advances and other writers add  *)
(* rows between the statements of a call as well as between calls          *)

OneSave == tasks = <<>> /\ SvcSave
OneStats == tasks = <<>> /\ SvcStats
OneFeedbacks == tasks = <<>> /\ SvcFeedbacks

SequenceNext ==
    OneSave \/ OneStats \/ OneFeedbacks \/ SvcStep \/ Tick \/ NextDay \/ ForeignWrite

SpecSequence == ServiceInit /\ [][SequenceNext]_vars

---------------------------------------------------------------------------
(* SpecThreads: save_feedback and get_statistics called from several       *)
(* threads, at one clock value                                             *)

ThreadsNext == SvcSave \/ SvcStats \/ SvcStep

SpecThreads == ServiceInit /\ [][ThreadsNext]_vars

---------------------------------------------------------------------------
(* SpecLimit: one caller on a worksheet that holds the header row and      *)
(* DefaultLimit records                                                    *)

LimitInit ==
    /\ state = [u \in Users |-> NoState]
    /\ data = [u \in Users |-> EmptyDict]
    /\ ADMIN_ID = 0
    /\ client = FALSE
    /\ sheet = <<ManagerHeader>>
    /\ reply = [to |-> 0, event |-> "none", at |-> NoState, kind |-> "none"]
    /\ log = [u \in Users |-> <<>>]
    /\ connected = FALSE
    /\ spreadsheet = FALSE
    /\ sheet1 = <<ServiceHeader>>
                   \o [i \in 1..DefaultLimit |-> row_data(0, test_user, test_feedback)]
    /\ Z100 = ""
    /\ dashboard = FALSE
    /\ _stats_cache = Nothing
    /\ _cache_time = Nothing
    /\ now = 0
    /\ writes = 0
    /\ last = [op |-> "none"]
    /\ computed = FALSE
    /\ tasks = <<>>

LimitNext == OneSave \/ OneStats \/ OneFeedbacks \/ SvcStep

SpecLimit == LimitInit /\ [][LimitNext]_vars

---------------------------------------------------------------------------
(* SpecRatings: the two statistics functions applied to worksheets whose    *)
(* rating cells are drawn from RatingCells, and to worksheets that hold one *)
(* record more than get_all_feedbacks reads                                 *)

\* rating cells: three ratings and a cell that is no number
RatingCells == {"5", "4", "3", "x"}
\* the rating cells of a worksheet: at most MaxCells of them, or those of
\* DefaultLimit records rated 5 and one more, rated 3
RatingLists ==
    UNION {[1..n -> RatingCells] : n \in 0..MaxCells}
        \cup {[i \in 1..(DefaultLimit + 1) |-> IF i <= DefaultLimit THEN "5" ELSE "3"]}

RatingsInit ==
    /\ state = [u \in Users |-> NoState]
    /\ data = [u \in Users |-> EmptyDict]
    /\ ADMIN_ID = 0
    /\ client = FALSE
    /\ \E cells \in RatingLists :
          LET ManagerRowOf(cell) ==
                  <<FormatTs(0), "1", "alice", "Alice", "A", cell, "Oshibka", "hi",
                    "novyj">>
              ServiceRowOf(cell) ==
                  [row_data(0, test_user, test_feedback) EXCEPT ![6] = cell]
          IN  /\ sheet = <<ManagerHeader>>
                            \o [i \in 1..Len(cells) |-> ManagerRowOf(cells[i])]
              /\ sheet1 = <<ServiceHeader>>
                             \o [i \in 1..Len(cells) |-> ServiceRowOf(cells[i])]
    /\ reply = [to |-> 0, event |-> "none", at |-> NoState, kind |-> "none"]
    /\ log = [u \in Users |-> <<>>]
    /\ connected = FALSE
    /\ spreadsheet = FALSE
    /\ Z100 = ""
    /\ dashboard = FALSE
    /\ _stats_cache = Nothing
    /\ _cache_time = Nothing
    /\ now = 0
    /\ writes = 0
    /\ last = [op |-> "none"]
    /\ computed = FALSE
    /\ tasks = <<>>

\* sheets_manager.get_stats(); last keeps what it returned
RatGetStats ==
    \E c, r \in BOOLEAN :
        /\ client' = ClientAfter(c)
        /\ last' = [op |-> "get_stats", answered |-> ClientAfter(c) /\ r,
                    ret |-> get_stats(c, r)]
        /\ UNCHANGED <<state, data, ADMIN_ID, sheet, reply, log, connected,
                       spreadsheet, sheet1, Z100, dashboard, _stats_cache,
                       _cache_time, now, writes, computed, tasks>>

RatingsNext == RatGetStats \/ OneStats \/ SvcStep

SpecRatings == RatingsInit /\ [][RatingsNext]_vars

---------------------------------------------------------------------------
(* SpecStore: the operations of the manager and of the service on their    *)
(* worksheets.  save_feedback of the service is called from several        *)
(* threads, also while a get_statistics or get_all_feedbacks call is in    *)
(* progress.                                                               *)

\* GoogleSheetsManager.save_feedback(user_data, feedback_data); last keeps
\* the value returned
manager_save_feedback(user_data, feedback_data, connect_ok, raises) ==
    /\ client' = ClientAfter(connect_ok)
    /\ sheet' = SheetAfterSave(user_data, feedback_data, connect_ok, raises)
    /\ last' = [op |-> "save_feedback", at |-> now,
                success |-> SaveResult(connect_ok, raises)]

StoSave ==
    \E f \in Feedbacks, c \in BOOLEAN, a \in Raises :
        /\ HasRoom
        /\ manager_save_feedback(test_user, f, c, a)
        /\ UNCHANGED <<state, data, ADMIN_ID, reply, log, connected, spreadsheet,
                       sheet1, Z100, dashboard, _stats_cache, _cache_time, now,
                       writes, computed, tasks>>

StoreNext == StoSave \/ RatGetStats \/ SvcSave \/ OneStats \/ OneFeedbacks \/ SvcStep

SpecStore == ServiceInit /\ [][StoreNext]_vars

---------------------------------------------------------------------------
(* Claims about the conversation *)

\* the rows below the header
DataRows(sh) == IF sh = <<>> THEN <<>> ELSE Tail(sh)

\* a complete linear run of user u whose append the store accepted
LinearRunDone(u) ==
    /\ Len(log[u]) = 5
    /\ log[u][5].accepted

\* C1: a linear run start, rate(r), category(c), comment(t), submit that begins
\* in no state and whose append the store accepts adds exactly one row to the
\* worksheet, and that row holds r, c and t (the empty string when t is /skip).
C1_LinearRunAppendsOneRecord ==
    \A u \in Users :
        LinearRunDone(u) =>
            LET l == log[u]
                row == sheet[Len(sheet)]
            IN  /\ Len(sheet) = l[1].base + 1
                /\ row[6] = StrOfInt(l[2].r)
                /\ row[7] = l[3].c
                /\ row[8] = (IF l[4].t = "/skip" THEN "" ELSE l[4].t)

\* C1 witness: a second run is complete, with rating 3, a type and /skip
C1_Witness ==
    \E u \in Users :
        /\ LinearRunDone(u)
        /\ log[u][1].base = 2
        /\ log[u][2].r = 3
        /\ log[u][3].c = "Ideya"
        /\ log[u][4].t = "/skip"

ValidRatingCells == {StrOfInt(r) : r \in 1..5}
CompleteDraft(d) == {"rating", "type", "comment"} \subseteq DOMAIN d

\* C2: every row written to the worksheet has a rating in 1..5, whatever the
\* events were.
C2_EveryRowRatingInRange ==
    \A i \in 2..Len(sheet) : sheet[i][6] \in ValidRatingCells

\* C3: a row is appended only by a submit that finds the user in confirmation
\* with rating, type and comment all set.
C3_AppendOnlyFromConfirmation ==
    [][sheet' # sheet =>
         \E u \in ActiveUsers, c \in BOOLEAN, a \in Raises :
             /\ submit_begin(u, c, a)
             /\ state[u] = confirmation
             /\ CompleteDraft(data[u])]_vars

\* C4: a cancel that finds the user in any state of the form leaves the user
\* in no state with an empty data dict and appends no row.
C4_CancelDiscardsDraft ==
    [][(reply'.event = "cancel_feedback" /\ state[reply'.to] \in FeedbackState) =>
         /\ state'[reply'.to] = NoState
         /\ data'[reply'.to] = EmptyDict
         /\ sheet' = sheet]_vars

\* C4 witness: a cancel was handled in confirmation, with a full draft at
\* hand a moment before, and the user is in no state
C4_Witness ==
    /\ reply.event = "cancel_feedback"
    /\ reply.at = confirmation
    /\ state[reply.to] = NoState

\* C5: after an edit handled in confirmation the user is in waiting_rating
\* with an empty data dict.
C5_EditEmptiesDraft ==
    (reply.event = "edit_feedback" /\ reply.at = confirmation) =>
        /\ state[reply.to] = waiting_rating
        /\ data[reply.to] = EmptyDict

\* C6: no handler ends in an exception nothing catches.
C6_NoHandlerRaises == reply.kind # "ERROR"

\* C7: after a submit handled in confirmation the user is in no state with an
\* empty data dict, and was sent the thanks or the try-later notice.
C7_SubmitAlwaysEndsIdle ==
    (reply.event = "submit_feedback" /\ reply.at = confirmation) =>
        /\ state[reply.to] = NoState
        /\ data[reply.to] = EmptyDict
        /\ reply.kind \in {"thanks", "try_later"}

\* C11: every row written to the worksheet has one of the four type names
\* in its type cell, whatever the events were.
C11_EveryRowCategoryInSet ==
    \A i \in 2..Len(sheet) : sheet[i][7] \in Categories

\* C12: the comment cell of every row written to the worksheet is a string,
\* never None: a message without text is stored as the empty string.
C12_EveryRowCommentIsString ==
    \A i \in 2..Len(sheet) : sheet[i][8] # NoneVal

\* C13: the updates of a user are handled one at a time, so the submits
\* delivered for one confirmation append at most one row: the worksheet has
\* at most one row more than when the user's current run of the form began.
C13_OneRecordPerConfirmation ==
    \A u \in Users :
        log[u] # <<>> => Len(sheet) <= log[u][1].base + 1

\* C14: every user has one FSM state and one data dict, and a handler
\* changes those of the user whose update it handles (reply'.to) and of
\* nobody else.
C14_SessionsIndependent ==
    [][/\ DOMAIN state' = Users
       /\ DOMAIN data' = Users
       /\ \A u \in Users \ {reply'.to} :
             state'[u] = state[u] /\ data'[u] = data[u]]_vars

\* C14 witness: user 2's rating was just handled while user 1 waits in
\* confirmation with a complete draft
C14_Witness ==
    /\ reply.to = 2
    /\ reply.event = "process_rating"
    /\ state[2] = waiting_type
    /\ state[1] = confirmation
    /\ CompleteDraft(data[1])

\* C19: a statistics request (/stats or the show_stats button) against a
\* worksheet without records is answered with the statistics text, total 0
\* and average 0.
C19_StatsOnEmptyStoreReportsZero ==
    (reply.event \in {"cmd_stats", "show_stats"} /\ Len(sheet) <= 1) =>
        /\ reply.kind = "stats"
        /\ reply.total = 0
        /\ reply.average = 0

\* C20: when sheet.append_row raises in the save of a submit (a client is at
\* hand, open_by_key and worksheet have returned), save_feedback has called
\* append_row a second time when it returns.
C20_FailedAppendIsRetriedOnce ==
    [][\A u \in ActiveUsers, c \in BOOLEAN :
          (HasRoom /\ submit_begin(u, c, "append_row") /\ ClientAfter(c)) =>
              append_row_calls(c, "append_row") = 2]_vars

\* a draft with its three fields, a rating of 1..5 and one of the four
\* type names
ValidDraft(d) ==
    /\ CompleteDraft(d)
    /\ d["rating"] \in RatingButtons
    /\ d["type"] \in {type_names[k] : k \in DOMAIN type_names}

\* C21: a save of a draft that lacks a field, or whose rating or type is
\* outside the allowed values, appends no row and is answered as a failure.
C21_InvalidDraftIsRefused ==
    [][\A u \in ActiveUsers, c \in BOOLEAN, a \in Raises :
          (HasRoom /\ submit_begin(u, c, a) /\ ~ValidDraft(data[u])) =>
              /\ sheet' = sheet
              /\ tasks' # tasks => ~tasks'[Len(tasks')].success]_vars

\* C22: a submit in confirmation, of a draft with its three fields, whose
\* save succeeded goes on to the thanks and to state.clear() (it is among
\* the calls that wait for their message to be sent), whatever becomes of
\* the admin notification.
C22_NotificationFailureChangesNothing ==
    [][\A u \in ActiveUsers, c \in BOOLEAN, a \in Raises :
          (/\ HasRoom
           /\ state[u] = confirmation
           /\ CompleteDraft(data[u])
           /\ submit_begin(u, c, a)
           /\ SaveResult(c, a)) =>
              tasks' = Append(tasks, [handler |-> "submit_feedback", u |-> u,
                                      at |-> confirmation, success |-> TRUE])]_vars

\* C23: no row of the worksheet has a comment cell of more than
\* MAX_FEEDBACK_LENGTH characters.
C23_NoCommentOverTheMaximum ==
    \A i \in 2..Len(sheet) : Len(sheet[i][8]) <= MAX_FEEDBACK_LENGTH

\* the rows of the transition table, as pairs of FSM states
TransitionTable ==
    {<<NoState, waiting_rating>>, <<waiting_rating, waiting_type>>,
     <<waiting_type, waiting_comment>>, <<waiting_comment, confirmation>>,
     <<confirmation, NoState>>, <<confirmation, waiting_rating>>}
        \cup {<<s, NoState>> : s \in FeedbackState}

\* C24: every change of a user's FSM state is a row of the transition table,
\* and a step that changes the data dict without being such a row does not
\* happen.
C24_StateChangesFollowTheTable ==
    [][\A u \in ActiveUsers :
          /\ state'[u] # state[u] => <<state[u], state'[u]>> \in TransitionTable
          /\ (state'[u] = state[u] /\ reply'.event \in
                  {"process_rating", "process_type", "submit_feedback",
                   "edit_feedback"} /\ reply' # reply) =>
                 data'[u] = data[u]]_vars

\* the payloads that are no choice: a rating payload that is no integer of
\* 1..5, a type payload that is none of the four keys
MalformedRate == {p \in RatePayloads : p \notin {rating_button(r) : r \in RatingButtons}}
MalformedType == {p \in TypePayloads : p \notin DOMAIN type_names}

\* C25: a malformed rating or type payload changes neither the user's FSM
\* state nor the data dict.
C25_MalformedChoiceChangesNothing ==
    [][\A u \in ActiveUsers :
          /\ \A p \in MalformedRate :
                 process_rating(u, p) => UNCHANGED <<state, data>>
          /\ \A p \in MalformedType :
                 process_type(u, p) => UNCHANGED <<state, data>>]_vars

\* C26: a text message that finds the user in waiting_comment moves the user
\* to confirmation with the comment in the data dict and sends the preview.
C26_TextInWaitingCommentReachesConfirmation ==
    [][\A u \in ActiveUsers, t \in Texts \ {NoneVal} :
          (state[u] = waiting_comment /\ process_comment(u, t)) =>
              /\ state'[u] = confirmation
              /\ "comment" \in DOMAIN data'[u]
              /\ reply'.kind = "preview"]_vars

\* the keys the data dict is to hold in each FSM state
DraftKeys(s) ==
    CASE s = waiting_type -> {"rating"}
      [] s = waiting_comment -> {"rating", "type"}
      [] s = confirmation -> {"rating", "type", "comment"}
      [] OTHER -> {}

\* C27: in every state the keys of a user's data dict are those of the
\* user's FSM state.
C27_DraftMatchesState ==
    \A u \in ActiveUsers : DOMAIN data[u] = DraftKeys(state[u])

---------------------------------------------------------------------------
(* Claims about the statistics cache *)

\* call i makes the statement at pc in this step
Makes(i, pc) == tasks[i].pc = pc /\ \E ok \in BOOLEAN : statement(i, ok)

\* a call of get_statistics returns in this step (last' keeps the result),
\* and the cache test of call i passes in this step
StatsReturn ==
    \E i \in 1..Len(tasks) : Makes(i, "return_cache") \/ Makes(i, "store_time")
CacheTestPasses(i) == Makes(i, "cache_age") /\ tasks'[i].pc = "return_cache"

\* seconds from the moment the cached snapshot was computed to now
CacheAge == now - _cache_time[1]

\* C8: when save_feedback has returned success on a worksheet that has its
\* header row and the next call, get_statistics(False), returns at the same
\* clock value with no row added in between, the call has gone to the store
\* and, if the store answered, has computed the snapshot from feedbacks that
\* include the row just saved.
C8_StatsAfterSaveIncludeRecord ==
    [][(/\ last.op = "save"
        /\ last.success
        /\ sheet1[1] = ServiceHeader
        /\ Len(sheet1) = last.row_number
        /\ StatsReturn
        /\ ~last'.force
        /\ last'.at = last.at)
       => (/\ last'.read
           /\ last'.answered => last.row_number \in last'.rows)]_vars

\* C9 as stated: two calls of get_statistics(False) that return less than
\* CACHE_TIMEOUT seconds apart with no save_feedback between them return the
\* same snapshot, and the second does not read the store.
C9_TwoCallsWithinTimeoutApart ==
    [][(/\ last.op = "stats"
        /\ ~last.force
        /\ StatsReturn
        /\ ~last'.force
        /\ last'.at - last.at < CACHE_TIMEOUT)
       => (last'.ret = last.ret /\ ~last'.read)]_vars

\* C9 amended: two calls of get_statistics(False) with no save_feedback
\* between them return the same snapshot, and the second does not read the
\* store, when the second returns less than CACHE_TIMEOUT seconds after the
\* snapshot the first one returned was cached.
C9_TwoCallsWithinTimeoutOfSnapshot ==
    [][(/\ last.op = "stats"
        /\ ~last.force
        /\ StatsReturn
        /\ ~last'.force
        /\ _cache_time # Nothing
        /\ CacheAge < CACHE_TIMEOUT)
       => (last'.ret = last.ret /\ ~last'.read)]_vars

\* a second call answered from the cache TickStep seconds after the snapshot
\* was cached, while the worksheet has gained a row since
C9_Witness ==
    /\ last.op = "stats"
    /\ ~last.force
    /\ ~last.read
    /\ last.at = now
    /\ _cache_time # Nothing
    /\ CacheAge = TickStep
    /\ writes > 0
    /\ last.ret.total = 0

\* C10: the cache test of get_statistics passes, so that the call returns
\* the cached snapshot without reading the store, only when force_refresh is
\* false, a snapshot exists and fewer than CACHE_TIMEOUT seconds have passed
\* since it was cached, at the clock value the call has read; otherwise
\* (forced, or CACHE_TIMEOUT seconds or more, more than a day included) the
\* call reads the store.
C10_CacheOnlyWithinTimeout ==
    [][\A i \in 1..Len(tasks) :
          CacheTestPasses(i)
          => (/\ ~tasks[i].force_refresh
              /\ _stats_cache # Nothing
              /\ _cache_time # Nothing
              /\ tasks[i].clock - _cache_time[1] < CACHE_TIMEOUT)]_vars

\* C15: the cached snapshot and its time change together: a call whose cache
\* test passes has read the snapshot together with the time stored by the
\* call that stored that very snapshot, also while other calls are between
\* their statements.
C15_SnapshotReadWithItsTime ==
    [][\A i \in 1..Len(tasks) : CacheTestPasses(i) => computed]_vars

\* the append_row of a save_feedback call has added its row
HasAppended(task) == task.pc \in {"read_back", "reset_cache"}

\* C28: a save_feedback call that returns a result with success False has
\* added no row to the worksheet.
C28_FailedSaveAddsNoRow ==
    [][\A i \in 1..Len(tasks) :
          (/\ tasks[i].handler = "save_feedback"
           /\ \E ok \in BOOLEAN : statement(i, ok)
           /\ last'.op = "save"
           /\ ~last'.success)
          => ~HasAppended(tasks[i])]_vars

\* C29: on a worksheet that holds records, the get_statistics(False) call
\* that follows a get_statistics call whose store read failed goes to the
\* store again: its cache test does not pass.
C29_FailedReadIsNotCached ==
    [][\A i \in 1..Len(tasks) :
          (/\ last.op = "stats"
           /\ last.read
           /\ ~last.answered
           /\ Len(sheet1) > 1
           /\ ~tasks[i].force_refresh)
          => ~CacheTestPasses(i)]_vars

\* C30: a get_statistics call whose store read was answered with fewer
\* records than the worksheet held when the latest save_feedback returned
\* with success does not put its snapshot into the cache.
C30_StaleSnapshotIsNotCached ==
    [][\A i \in 1..Len(tasks) :
          (/\ Makes(i, "store_cache")
           /\ tasks[i].answered
           /\ last.op = "save"
           /\ last.success
           /\ Cardinality(tasks[i].rows) < last.row_number - 1)
          => _stats_cache' # Some(tasks[i].stats)]_vars

---------------------------------------------------------------------------
(* Claims about the records and the figures of a snapshot *)

\* C16: when the append_row of a save_feedback call adds its row to a
\* worksheet that has its header row, get_all_feedbacks() on the worksheet it
\* leaves returns a feedback for the row just added, with the rating, type
\* and comment that were saved.
C16_SavedRecordReadsBack ==
    [][\A i \in 1..Len(tasks) :
          (/\ tasks[i].pc = "append_row"
           /\ save_append_row(i, TRUE)
           /\ sheet1'[1] = ServiceHeader)
          => LET f == tasks[i].feedback_data
                 feedbacks == FeedbacksOf(sheet1', DefaultLimit)
             IN  \E k \in 1..Len(feedbacks) :
                     /\ feedbacks[k]["_row"] = Len(sheet1')
                     /\ feedbacks[k]["Rating"] = StrOfInt(f.rating)
                     /\ feedbacks[k]["Type"] = f.type
                     /\ feedbacks[k]["Comment"] = f.comment]_vars

\* the value of a digit, and the ratings a worksheet holds: the cells of the
\* rating column that are digits
DigitValue(cell) == CHOOSE d \in 0..9 : Digits[d + 1] = cell
IsRatingRow(row) == row[6] \in DigitStrings
StoredRatings(sh) ==
    LET rated == SelectSeq(DataRows(sh), IsRatingRow)
    IN  [j \in 1..Len(rated) |-> DigitValue(rated[j][6])]

\* the average the last call returned, in hundredths, and the worksheet the
\* call read
ReturnedAverage ==
    IF last.op = "stats" THEN last.ret.average_rating ELSE last.ret.average
SheetRead == IF last.op = "stats" THEN sheet1 ELSE sheet
AverageReturned == last.op \in {"stats", "get_stats"} /\ last.answered

\* the rows of the worksheet the call has taken its ratings from: get_stats
\* all of them, get_statistics the header row and the DefaultLimit records
\* after it, which is what get_all_feedbacks() gives it
RowsRead ==
    IF last.op = "stats"
    THEN SubSeq(sheet1, 1, Min(Len(sheet1), DefaultLimit + 1))
    ELSE sheet

RECURSIVE SumCounters(_, _)
SumCounters(dist, keys) ==
    IF keys = {} THEN 0
    ELSE LET k == CHOOSE x \in keys : TRUE
         IN  dist[k] + SumCounters(dist, keys \ {k})

\* a worksheet with its header row and every row as wide as the header
WellFormed(sh) ==
    /\ sh # <<>>
    /\ sh[1] = ServiceHeader
    /\ \A i \in 1..Len(sh) : Len(sh[i]) = Len(ServiceHeader)

\* the worksheet is the one the call that returns in this step has read:
\* it had a feedback for every row after the header
ReadInFull == last'.read /\ last'.answered /\ last'.rows = 2..Len(sheet1)

\* C18: in the snapshot a get_statistics call returns after the store has
\* answered its read, computed from a well-formed worksheet, the counters of
\* rating_distribution add up to the number of records whose rating cell is
\* a number, and total is the number of all records of the worksheet.
C18_DistributionAndTotalCoverAllRecords ==
    [][(/\ StatsReturn
        /\ last'.read
        /\ last'.answered
        /\ WellFormed(sheet1))
       => (/\ SumCounters(last'.ret.rating_distribution,
                          DOMAIN last'.ret.rating_distribution)
                = Len(StoredRatings(sheet1))
           /\ last'.ret.total = Len(sheet1) - 1)]_vars

\* C31: a read of a well-formed worksheet by get_all_feedbacks(), which the
\* store answers, returns a feedback for every row after the header, in the
\* order of the rows.
C31_ReadAllReturnsEveryRow ==
    [][\A i \in 1..Len(tasks) :
          (/\ tasks[i].pc = "get_all_values"
           /\ feedbacks_get_all_values(i, TRUE)
           /\ connected
           /\ tasks[i].limit = DefaultLimit
           /\ WellFormed(sheet1))
          => LET feedbacks == FeedbacksOf(sheet1, tasks[i].limit)
             IN  /\ Len(feedbacks) = Len(sheet1) - 1
                 /\ \A k \in 1..Len(feedbacks) : feedbacks[k]["_row"] = k + 1]_vars

\* every row after the header is a row save_feedback has written
SavedRows(sh) ==
    \A k \in 2..Len(sh) :
        \E t \in Times, f \in Feedbacks : sh[k] = row_data(t, test_user, f)

\* C33: last_update of the snapshot a get_statistics call returns, computed
\* from all the rows of a well-formed worksheet of at most DefaultLimit
\* records, all of them written by save_feedback, is the timestamp of the
\* last row.
C33_LastUpdateIsTheLatestRecord ==
    [][(/\ StatsReturn
        /\ ReadInFull
        /\ WellFormed(sheet1)
        /\ SavedRows(sheet1)
        /\ Len(sheet1) > 1
        /\ Len(sheet1) <= DefaultLimit + 1)
       => last'.ret.last_update = sheet1[Len(sheet1)][1]]_vars

\* s is the beginning of t
IsPrefix(s, t) == Len(s) <= Len(t) /\ SubSeq(t, 1, Len(s)) = s

\* C32: every step leaves the rows of both worksheets where they were and as
\* they were.  A save_feedback of the manager that succeeds adds one row
\* below them with the status of a new record; the service's worksheet
\* changes only when connect writes the header row into a blank worksheet
\* and when the append_row of a save_feedback call adds one row below the
\* rows, with the status of a new record.
C32_StoreIsAppendOnly ==
    [][/\ IsPrefix(sheet, sheet')
       /\ IsPrefix(sheet1, sheet1')
       /\ \A f \in Feedbacks, c \in BOOLEAN, a \in Raises :
              (manager_save_feedback(test_user, f, c, a) /\ SaveResult(c, a)) =>
                  /\ Len(sheet') = Len(sheet) + 1
                  /\ sheet'[Len(sheet')][9] = "novyj"
       /\ \/ sheet1' = sheet1
          \/ sheet1 = <<>> /\ sheet1' = <<ServiceHeader>>
          \/ /\ \E i \in 1..Len(tasks) : Makes(i, "append_row")
             /\ Len(sheet1') = Len(sheet1) + 1
             /\ sheet1'[Len(sheet1')][9] = "Novyj"]_vars

=============================================================================
